---- MODULE Spec2Model ----
(***************************************************************************)
(* A model of the hand-rolled SMTP client of backend/src/email.ts.         *)
(* Text is a sequence of one-character strings; LF and CR stand for the    *)
(* line feed and the carriage return.  A document whose lines end in CRLF  *)
(* is a sequence of segments, the pieces a split on CRLF would give.       *)
(***************************************************************************)
EXTENDS Integers, Sequences, FiniteSets, TLC

LF == "LF"
CR == "CR"

\* ------------------------------------------------------------------ bounds

\* The most deliveries one readLine call accumulates.
MaxChunks == 2

\* The longest text drawn for a call of extractCode on its own.
MaxTextLen == 5

\* The most reply lines one "data" event carries when the peer is followed line by line.
MaxLinesPerChunk == 2

\* The last minute the clock reaches.
MaxNow == 2

\* ------------------------------------------------------- program constants

ImplicitTlsPort == 465

\* ------------------------------------------------------------ text helpers

WhiteSpace == {" ", LF, CR}

Digits == {"0", "1", "2", "3", "4", "5", "6", "7", "8", "9"}

DigitVal(c) ==
    CASE c = "0" -> 0 [] c = "1" -> 1 [] c = "2" -> 2 [] c = "3" -> 3
      [] c = "4" -> 4 [] c = "5" -> 5 [] c = "6" -> 6 [] c = "7" -> 7
      [] c = "8" -> 8 [] c = "9" -> 9

\* String.prototype.trim
RECURSIVE trim(_)
trim(s) ==
    IF s = <<>> THEN s
    ELSE IF Head(s) \in WhiteSpace THEN trim(Tail(s))
    ELSE IF s[Len(s)] \in WhiteSpace THEN trim(SubSeq(s, 1, Len(s) - 1))
    ELSE s

\* String.prototype.toLowerCase, on the letters the model's texts use
toLowerCase(s) ==
    [i \in 1..Len(s) |->
        CASE s[i] = "S" -> "s" [] s[i] = "T" -> "t" [] s[i] = "A" -> "a"
          [] s[i] = "R" -> "r" [] s[i] = "L" -> "l" [] s[i] = "U" -> "u"
          [] s[i] = "E" -> "e" [] OTHER -> s[i]]

\* String.prototype.includes, for any needle
includes(s, needle) ==
    \E i \in 1..(Len(s) - Len(needle) + 1) :
        SubSeq(s, i, i + Len(needle) - 1) = needle

\* String.prototype.split(","): the pieces between the commas
RECURSIVE split(_)
split(s) ==
    IF \A i \in 1..Len(s) : s[i] # ","
    THEN <<s>>
    ELSE LET i == CHOOSE k \in 1..Len(s) :
                      s[k] = "," /\ \A j \in 1..(k - 1) : s[j] # ","
         IN  <<SubSeq(s, 1, i - 1)>> \o split(SubSeq(s, i + 1, Len(s)))

\* Array.prototype.join(", ")
RECURSIVE join(_)
join(xs) ==
    IF xs = <<>> THEN <<>>
    ELSE IF Len(xs) = 1 THEN xs[1]
    ELSE xs[1] \o <<",", " ">> \o join(Tail(xs))

\* Number(s) for a trimmed, non-empty string: its decimal value, NaN (-1) otherwise
RECURSIVE DecimalValue(_)
DecimalValue(s) ==
    IF s = <<>> THEN 0 ELSE 10 * DecimalValue(SubSeq(s, 1, Len(s) - 1)) + DigitVal(s[Len(s)])

Number(s) ==
    IF s # <<>> /\ \A i \in 1..Len(s) : s[i] \in Digits THEN DecimalValue(s) ELSE -1

\* --------------------------------------------------------- the input sets

HostVals == {<<>>, <<"h">>}
PortVals == {<<>>, <<" ">>, <<"4", "6", "5">>, <<" ", "5", "8", "7">>}
UserVals == {<<>>, <<"u">>}
PassVals == {<<" ">>, <<"p">>}
FromVals == {<<>>, <<"f", " ">>}
StartTlsVals == {<<>>, <<"T", "r", "u", "e", " ">>}

ToVals ==
    { <<>>, <<" ">>, <<",">>, <<" ", ",", " ">>,
      <<"a", ",", " ", "b">>, <<",", "b", " ", ",">> }

SubjectVals == {<<"s">>}

\* HTML bodies, as CRLF-separated segments
HtmlVals == {<< <<"<", "p", ">">> >>}

\* The boundary tokens Math.random can give
Boundaries == {"wm1", "wm2"}

\* What the peer can deliver in one "data" event
Chunks ==
    { <<"2", "2", "0", " ", "o", "k", CR, LF>>,
      <<"2", "5", "0", LF>>,
      <<"2", "5", "1", LF>>,
      <<"3", "3", "4", LF>>,
      <<"2", "3", "5", LF>>,
      <<"3", "5", "4", LF>>,
      <<"5", "5", "0", " ", "n", "o", CR, LF>>,
      <<"2", "5", "0", "-", "S", "T", "A", "R", "T", "T", "L", "S", CR, LF>>,
      <<"2", "5", "0", " ", "s", "t", "a", "r", "t", "t", "l", "s", LF>>,
      <<"x", LF, "2", "5", "0", LF>>,
      <<"x", LF>>,
      <<"2", "5">>,
      <<"0", LF>> }

\* ------------------------------------------------------------------ state

VARIABLES
    processEnv,   \* process.env: the six SMTP_* variables
    sockets,      \* socket objects created in the process so far
    params,       \* the SendEmailParams of the call
    pc,           \* where the call is suspended
    cfg,          \* host, port, user, pass, from, useStartTls of the call
    recipients,   \* the parsed recipient list
    sock,         \* the active transport: "none", "plain" or "tls"
    sockId,       \* which socket object the call's sock is (0: none yet)
    buf,          \* readLine's accumulated text
    nchunks,      \* deliveries the pending readLine has taken
    rl,           \* readLine's registrations on the socket, and its outcomes per call
    ri,           \* the index of the recipient the for loop is at
    ehlo,         \* the text read after the first EHLO
    boundary,     \* the boundary makeMime drew
    wire,         \* every write attempted, in order
    replies,      \* every line readLine resolved with, its code and its place
    faults,       \* what the transport did wrong in this call
    failure,      \* the kind of error the catch block caught
    errorInfo,    \* the code and the raw text in the message of expect's error
    opened,       \* connections opened by the call
    ended,        \* sock.end() calls made by the call
    outcome,      \* "pending", "true", "false", or "raised"
    other,        \* a second sendEmail call in flight, while it is not running
    probe,        \* a call of one of the pure functions: its input and its result
    peer,         \* the SMTP server: the reply lines it has sent that have not arrived
    db,           \* the database: the alert_settings rows of the device, and the alerts rows
    reqs,         \* the evaluateReading requests in flight: the locals of each
    now           \* the clock, in minutes

\* the state of one call
callVars == <<params, pc, cfg, recipients, sock, sockId, buf, nchunks, rl, ri, ehlo,
              boundary, wire, replies, faults, failure, errorInfo, opened, ended, outcome>>

\* what lies outside sendEmail: its peer, and the alert evaluator that calls it
worldVars == <<peer, db, reqs, now>>

vars == <<processEnv, sockets, callVars, other, probe, worldVars>>

\* ----------------------------------------------------------- pure helpers

env(k) == trim(processEnv[k])

b64(s) == <<"base64">> \o s

\* hasSmtpEnv without its last conjunct
hasSmtpEnvWithoutFrom ==
    /\ env("SMTP_HOST") # <<>>
    /\ env("SMTP_PORT") # <<>>
    /\ env("SMTP_USER") # <<>>
    /\ env("SMTP_PASS") # <<>>

hasSmtpEnv ==
    /\ env("SMTP_HOST") # <<>>
    /\ env("SMTP_PORT") # <<>>
    /\ env("SMTP_USER") # <<>>
    /\ env("SMTP_PASS") # <<>>
    /\ env("SMTP_FROM") # <<>>

\* parseRecipients without filter(Boolean)
parseRecipientsUnfiltered(to) ==
    LET parts == split(to)
    IN  [i \in 1..Len(parts) |-> trim(parts[i])]

\* params.to.split(",").map(trim).filter(Boolean)
parseRecipients(to) ==
    LET parts == split(to)
        trimmed == [i \in 1..Len(parts) |-> trim(parts[i])]
    IN  SelectSeq(trimmed, LAMBDA r : r # <<>>)

\* the pattern without its m flag: only the start of the text is a line start
IsLineStartOfTextOnly(resp, i) == i = 1

\* /^(\d{3})/m : the first place at the start of a line where three digits stand
IsLineStart(resp, i) == i = 1 \/ resp[i - 1] \in {LF, CR}

CodeAt(resp, i) ==
    /\ i + 2 <= Len(resp)
    /\ IsLineStart(resp, i)
    /\ resp[i] \in Digits /\ resp[i + 1] \in Digits /\ resp[i + 2] \in Digits

extractCode(resp) ==
    IF \E i \in 1..Len(resp) : CodeAt(resp, i)
    THEN LET i == CHOOSE k \in 1..Len(resp) :
                      CodeAt(resp, k) /\ \A j \in 1..(k - 1) : ~CodeAt(resp, j)
         IN  100 * DigitVal(resp[i]) + 10 * DigitVal(resp[i + 1]) + DigitVal(resp[i + 2])
    ELSE 0

\* expect written as: if (code && !okCodes.includes(code)) throw
expectThrowsUnlessNoCode(okCodes, resp) ==
    extractCode(resp) # 0 /\ extractCode(resp) \notin okCodes

\* expect: the check that throws
expectThrows(okCodes, resp) == extractCode(resp) \notin okCodes

\* /STARTTLS/i.test(text)
advertisesStartTls(text) ==
    includes(toLowerCase(text), <<"s", "t", "a", "r", "t", "t", "l", "s">>)

\* the condition of the upgrade without the look at the EHLO reply
wantsStartTlsUnadvertised(port, useStartTls, text) ==
    port # ImplicitTlsPort /\ useStartTls

\* the condition of the STARTTLS upgrade
wantsStartTls(port, useStartTls, text) ==
    port # ImplicitTlsPort /\ useStartTls /\ advertisesStartTls(text)

\* makeMime with the closing delimiter written like the opening one
makeMimeUnclosed(from, to, subject, html, bnd) ==
    LET headers == << <<"From: ">> \o from,
                      <<"To: ">> \o to,
                      <<"Subject: ">> \o subject,
                      <<"MIME-Version: 1.0">>,
                      <<"Content-Type: multipart/alternative; boundary=\"", bnd, "\"">>,
                      <<>> >>
        body == << <<"--", bnd>>,
                   <<"Content-Type: text/html; charset=utf-8">>,
                   <<"Content-Transfer-Encoding: 7bit">>,
                   <<>> >>
                \o html
                \o << <<"--", bnd>>, <<>> >>
    IN  headers \o body

\* makeMime, as CRLF-separated segments
makeMime(from, to, subject, html, bnd) ==
    LET headers == << <<"From: ">> \o from,
                      <<"To: ">> \o to,
                      <<"Subject: ">> \o subject,
                      <<"MIME-Version: 1.0">>,
                      <<"Content-Type: multipart/alternative; boundary=\"", bnd, "\"">>,
                      <<>> >>
        body == << <<"--", bnd>>,
                   <<"Content-Type: text/html; charset=utf-8">>,
                   <<"Content-Transfer-Encoding: 7bit">>,
                   <<>> >>
                \o html
                \o << <<"--", bnd, "--">>, <<>> >>
    IN  headers \o body

\* the payload without its end marker
dataPayloadUnterminated(mime) == mime

\* mime + "\r\n.\r\n": the last segment of mime stays as it is, then "." and ""
dataPayload(mime) == mime \o << <<".">>, <<>> >>

\* ------------------------------------------------------------ the program

ReadPcs ==
    {"greet", "ehlo_r", "stls_r", "ehlo2_r", "auth_r", "user_r", "pass_r",
     "mail_r", "rcpt_r", "data_r", "body_r"}

WritePcs ==
    {"ehlo_w", "stls_w", "ehlo2_w", "auth_w", "user_w", "pass_w", "mail_w",
     "rcpt_w", "data_w", "body_w", "quit_w", "catch_quit"}

\* the reads that check a code, with the greeting left a bare readLine
ExpectPcsButGreeting == ReadPcs \ {"ehlo_r", "ehlo2_r", "greet"}

\* the reads that check a code, with the one after the payload left a bare readLine
ExpectPcsButPayload == ReadPcs \ {"ehlo_r", "ehlo2_r", "body_r"}

\* the codes each expect call is given; the two reads after EHLO are bare readLine calls
\* the steps with the read after EHLO made through expect as well
ExpectPcsWithEhlo == ReadPcs \ {"ehlo2_r"}

ExpectPcs == ReadPcs \ {"ehlo_r", "ehlo2_r"}

\* the table with 550 let through for RCPT TO
okCodesRcptLax(at) ==
    CASE at = "greet"  -> {220}
      [] at = "stls_r" -> {220}
      [] at = "auth_r" -> {334}
      [] at = "user_r" -> {334}
      [] at = "pass_r" -> {235}
      [] at = "mail_r" -> {250}
      [] at = "rcpt_r" -> {250, 251, 550}
      [] at = "data_r" -> {354}
      [] at = "body_r" -> {250}

okCodes(at) ==
    CASE at = "greet"  -> {220}
      [] at = "stls_r" -> {220}
      [] at = "auth_r" -> {334}
      [] at = "user_r" -> {334}
      [] at = "pass_r" -> {235}
      [] at = "mail_r" -> {250}
      [] at = "rcpt_r" -> {250, 251}
      [] at = "data_r" -> {354}
      [] at = "body_r" -> {250}
      [] OTHER         -> {}

\* the lines built from process.env at the time of the write, not from the locals
commandAtReadingEnv(at) ==
    CASE at = "ehlo_w"     -> [verb |-> "EHLO", arg |-> <<>>]
      [] at = "stls_w"     -> [verb |-> "STARTTLS", arg |-> <<>>]
      [] at = "ehlo2_w"    -> [verb |-> "EHLO", arg |-> <<>>]
      [] at = "auth_w"     -> [verb |-> "AUTH LOGIN", arg |-> <<>>]
      [] at = "user_w"     -> [verb |-> "CRED", arg |-> b64(env("SMTP_USER"))]
      [] at = "pass_w"     -> [verb |-> "CRED", arg |-> b64(env("SMTP_PASS"))]
      [] at = "mail_w"     -> [verb |-> "MAIL FROM", arg |-> env("SMTP_FROM")]
      [] at = "rcpt_w"     -> [verb |-> "RCPT TO", arg |-> recipients[ri]]
      [] at = "data_w"     -> [verb |-> "DATA", arg |-> <<>>]
      [] at = "body_w"     ->
            [verb |-> "PAYLOAD",
             arg |-> dataPayload(makeMime(env("SMTP_FROM"), join(recipients),
                                          params.subject, params.html, boundary))]
      [] at = "quit_w"     -> [verb |-> "QUIT", arg |-> <<>>]
      [] at = "catch_quit" -> [verb |-> "QUIT", arg |-> <<>>]

\* the line each write step hands to sock.write
commandAt(at) ==
    CASE at = "ehlo_w"     -> [verb |-> "EHLO", arg |-> <<>>]
      [] at = "stls_w"     -> [verb |-> "STARTTLS", arg |-> <<>>]
      [] at = "ehlo2_w"    -> [verb |-> "EHLO", arg |-> <<>>]
      [] at = "auth_w"     -> [verb |-> "AUTH LOGIN", arg |-> <<>>]
      [] at = "user_w"     -> [verb |-> "CRED", arg |-> b64(cfg.user)]
      [] at = "pass_w"     -> [verb |-> "CRED", arg |-> b64(cfg.pass)]
      [] at = "mail_w"     -> [verb |-> "MAIL FROM", arg |-> cfg.from]
      [] at = "rcpt_w"     -> [verb |-> "RCPT TO", arg |-> recipients[ri]]
      [] at = "data_w"     -> [verb |-> "DATA", arg |-> <<>>]
      [] at = "body_w"     ->
            [verb |-> "PAYLOAD",
             arg |-> dataPayload(makeMime(cfg.from, join(recipients),
                                          params.subject, params.html, boundary))]
      [] at = "quit_w"     -> [verb |-> "QUIT", arg |-> <<>>]
      [] at = "catch_quit" -> [verb |-> "QUIT", arg |-> <<>>]

\* the order with the payload written straight after DATA
readAfterPipelined(at) ==
    CASE at = "ehlo_w"  -> "ehlo_r"
      [] at = "stls_w"  -> "stls_r"
      [] at = "ehlo2_w" -> "ehlo2_r"
      [] at = "auth_w"  -> "auth_r"
      [] at = "user_w"  -> "user_r"
      [] at = "pass_w"  -> "pass_r"
      [] at = "mail_w"  -> "mail_r"
      [] at = "rcpt_w"  -> "rcpt_r"
      [] at = "data_w"  -> "body_w"
      [] at = "body_w"  -> "body_r"

\* the read that follows a write that succeeded
readAfter(at) ==
    CASE at = "ehlo_w"  -> "ehlo_r"
      [] at = "stls_w"  -> "stls_r"
      [] at = "ehlo2_w" -> "ehlo2_r"
      [] at = "auth_w"  -> "auth_r"
      [] at = "user_w"  -> "user_r"
      [] at = "pass_w"  -> "pass_r"
      [] at = "mail_w"  -> "mail_r"
      [] at = "rcpt_w"  -> "rcpt_r"
      [] at = "data_w"  -> "data_r"
      [] at = "body_w"  -> "body_r"

NoConfig ==
    [host |-> <<>>, port |-> 0, user |-> <<>>, pass |-> <<>>, from |-> <<>>,
     useStartTls |-> FALSE]

\* no readLine has been called yet: nothing registered, nothing settled
NoReads == [n |-> 0, data |-> {}, err |-> {}, timer |-> {}, settled |-> <<>>]

NoError == [code |-> -1, raw |-> <<>>]

NoCall == [pc |-> "absent"]

NoProbe == [op |-> "none", in |-> <<>>, out |-> <<>>]

\* a peer that is not modelled line by line: nothing of it is recorded
NoPeer == [served |-> 0, queue |-> <<>>, held |-> {}, taken |-> <<>>, lost |-> {}]

\* no evaluateReading request is running
NoReqs == <<>>

\* a database with no alert_settings rows and no alerts rows
NoDb == [settings |-> <<>>, alerts |-> <<>>]

\* sendEmail called from outside the alert evaluator, its peer sending what it likes
NoWorld ==
    /\ peer = NoPeer
    /\ db = NoDb
    /\ reqs = NoReqs
    /\ now = 0

\* readLine: a new promise, with its onData, its onErr and its timer registered
beginRead(r) ==
    [n |-> r.n + 1,
     data |-> r.data \cup {r.n + 1},
     err |-> r.err \cup {r.n + 1},
     timer |-> r.timer \cup {r.n + 1},
     settled |-> Append(r.settled, 0)]

\* cleanup that clears the timer and takes off onData, and leaves onErr on the socket
cleanupLeavingOnErr(r, id) ==
    [r EXCEPT !.timer = @ \ {id}, !.data = @ \ {id}]

\* readLine's cleanup: clearTimeout(t), sock.off("data", onData), sock.off("error", onErr)
cleanup(r, id) ==
    [r EXCEPT !.timer = @ \ {id}, !.data = @ \ {id}, !.err = @ \ {id}]

\* resolve or reject, called by the handlers of read id
settle(r, id) == [r EXCEPT !.settled[id] = @ + 1]

\* the handlers of every read in ids run: each cleans up and settles its promise
RECURSIVE runHandlers(_, _)
runHandlers(r, ids) ==
    IF ids = {} THEN r
    ELSE LET id == CHOOSE x \in ids : TRUE
         IN  runHandlers(settle(cleanup(r, id), id), ids \ {id})

\* the read whose promise sendEmail is awaiting, if its promise is still pending
Pending(id) == pc \in ReadPcs /\ id = rl.n /\ rl.settled[id] = 0

\* the state a call starts in
Fresh ==
    /\ pc = "start"
    /\ cfg = NoConfig
    /\ recipients = <<>>
    /\ sock = "none"
    /\ sockId = 0
    /\ buf = <<>>
    /\ nchunks = 0
    /\ rl = NoReads
    /\ ri = 0
    /\ ehlo = <<>>
    /\ boundary = "none"
    /\ wire = <<>>
    /\ replies = <<>>
    /\ faults = {}
    /\ failure = "none"
    /\ errorInfo = NoError
    /\ opened = 0
    /\ ended = 0
    /\ outcome = "pending"

Init ==
    /\ processEnv \in [SMTP_HOST : HostVals, SMTP_PORT : PortVals, SMTP_USER : UserVals,
                       SMTP_PASS : PassVals, SMTP_FROM : FromVals,
                       SMTP_STARTTLS : StartTlsVals]
    /\ params \in [to : ToVals, subject : SubjectVals, html : HtmlVals]
    /\ sockets = 0
    /\ Fresh
    /\ other = NoCall
    /\ probe = NoProbe
    /\ NoWorld

\* return v: the finally block ends the socket on the way out
Return(v) ==
    /\ outcome' = v
    /\ ended' = ended + 1
    /\ pc' = "done"

\* an error thrown inside the try block: the catch block logs it and writes QUIT
Throw(kind) ==
    /\ failure' = kind
    /\ pc' = "catch_quit"
    /\ UNCHANGED <<outcome, ended>>

\* sendEmail, from its entry to its first await
SendEmail ==
    /\ pc = "start"
    /\ IF ~hasSmtpEnv
       THEN /\ outcome' = "false"
            /\ pc' = "done"
            /\ UNCHANGED <<cfg, recipients, sock, sockId, sockets, opened>>
       ELSE /\ cfg' = [host |-> env("SMTP_HOST"),
                       port |-> Number(env("SMTP_PORT")),
                       user |-> env("SMTP_USER"),
                       pass |-> env("SMTP_PASS"),
                       from |-> env("SMTP_FROM"),
                       useStartTls |->
                           toLowerCase(env("SMTP_STARTTLS")) = <<"t", "r", "u", "e">>]
            /\ recipients' = parseRecipients(params.to)
            /\ IF Len(recipients') = 0
               THEN /\ outcome' = "false"
                    /\ pc' = "done"
                    /\ UNCHANGED <<sock, sockId, sockets, opened>>
               ELSE /\ sock' = IF cfg'.port = ImplicitTlsPort THEN "tls" ELSE "plain"
                    /\ sockets' = sockets + 1
                    /\ sockId' = sockets + 1
                    /\ opened' = opened + 1
                    /\ pc' = "connecting"
                    /\ UNCHANGED outcome
    /\ UNCHANGED <<processEnv, params, buf, nchunks, rl, ri, ehlo, boundary, wire,
                   replies, faults, failure, errorInfo, ended, other, probe, worldVars>>

\* the "connect" or "secureConnect" event of the new socket; expect([220]) calls readLine
OnConnect ==
    /\ pc = "connecting"
    /\ pc' = "greet"
    /\ rl' = beginRead(rl)
    /\ UNCHANGED <<processEnv, sockets, params, cfg, recipients, sock, sockId, buf,
                   nchunks, ri, ehlo, boundary, wire, replies, faults, failure,
                   errorInfo, opened, ended, outcome, other, probe, worldVars>>

\* the "error" event of the new socket: the promise rejects outside the try block
OnConnectError ==
    /\ pc = "connecting"
    /\ faults' = faults \cup {"connect"}
    /\ outcome' = "raised"
    /\ pc' = "done"
    /\ UNCHANGED <<processEnv, sockets, params, cfg, recipients, sock, sockId, buf,
                   nchunks, rl, ri, ehlo, boundary, wire, replies, failure, errorInfo,
                   opened, ended, other, probe, worldVars>>

\* the upgrade that leaves sock bound to the plain socket
activeTransportKeptPlain(at, s) == s

\* sock after the expect of step at: after STARTTLS's 220, sock = tls.connect({socket: sock})
activeTransport(at, s) == IF at = "stls_r" THEN "tls" ELSE s

\* what sendEmail does with the line a read resolved with, up to its next await
AfterRead(resp) ==
    /\ replies' = Append(replies, [at |-> pc, code |-> extractCode(resp), nw |-> Len(wire)])
    /\ IF pc \in ExpectPcs /\ expectThrows(okCodes(pc), resp)
       THEN /\ Throw("UnexpectedResponse")
            /\ errorInfo' = [code |-> extractCode(resp), raw |-> resp]
            /\ UNCHANGED <<sock, ri, ehlo, boundary>>
       ELSE /\ pc' = CASE pc = "greet"   -> "ehlo_w"
                       [] pc = "ehlo_r"  ->
                            IF wantsStartTls(cfg.port, cfg.useStartTls, resp)
                            THEN "stls_w" ELSE "auth_w"
                       [] pc = "stls_r"  -> "tls_hs"
                       [] pc = "ehlo2_r" -> "auth_w"
                       [] pc = "auth_r"  -> "user_w"
                       [] pc = "user_r"  -> "pass_w"
                       [] pc = "pass_r"  -> "mail_w"
                       [] pc = "mail_r"  -> "rcpt_w"
                       [] pc = "rcpt_r"  -> IF ri < Len(recipients) THEN "rcpt_w" ELSE "data_w"
                       [] pc = "data_r"  -> "body_w"
                       [] pc = "body_r"  -> "quit_w"
            /\ sock' = activeTransport(pc, sock)
            /\ ri' = CASE pc = "mail_r" -> 1
                       [] pc = "rcpt_r" /\ ri < Len(recipients) -> ri + 1
                       [] OTHER -> ri
            /\ ehlo' = IF pc = "ehlo_r" THEN resp ELSE ehlo
            /\ IF pc = "data_r"
               THEN \E b \in Boundaries : boundary' = b
               ELSE UNCHANGED boundary
            /\ UNCHANGED <<failure, errorInfo, outcome, ended>>

\* readLine's onData for the chunk of a "data" event, and what follows when it resolves
onData(chunk) ==
    /\ pc \in ReadPcs
    /\ rl.n \in rl.data
    /\ LET text == buf \o chunk IN
       IF includes(text, <<LF>>)
       THEN /\ buf' = <<>>
            /\ nchunks' = 0
            /\ rl' = settle(cleanup(rl, rl.n), rl.n)
            /\ AfterRead(text)
       ELSE /\ nchunks + 1 < MaxChunks
            /\ buf' = text
            /\ nchunks' = nchunks + 1
            /\ UNCHANGED <<pc, sock, rl, ri, ehlo, boundary, replies, failure, errorInfo,
                           outcome, ended>>
    /\ UNCHANGED <<processEnv, sockets, params, cfg, recipients, sockId, wire, faults,
                   opened, other, probe, db, reqs, now>>

\* a "data" event with any chunk, from a peer that is not modelled line by line
OnData(chunk) ==
    /\ onData(chunk)
    /\ UNCHANGED peer

\* an "error" event of the socket: every onErr registered on it runs
OnErr ==
    /\ rl.err # {}
    /\ faults' = faults \cup {"socket"}
    /\ rl' = runHandlers(rl, rl.err)
    /\ IF \E id \in rl.err : Pending(id)
       THEN /\ buf' = <<>>
            /\ nchunks' = 0
            /\ Throw("TransportError")
       ELSE UNCHANGED <<buf, nchunks, failure, pc, outcome, ended>>
    /\ UNCHANGED <<processEnv, sockets, params, cfg, recipients, sock, sockId, ri, ehlo,
                   boundary, wire, replies, errorInfo, opened, other, probe, worldVars>>

\* the timer resolving the read with what has arrived, in place of rejecting
OnTimeoutResolves ==
    /\ pc \in ReadPcs
    /\ rl.n \in rl.timer
    /\ faults' = faults \cup {"silence"}
    /\ buf' = <<>>
    /\ nchunks' = 0
    /\ rl' = settle(cleanup(rl, rl.n), rl.n)
    /\ AfterRead(buf)
    /\ UNCHANGED <<processEnv, sockets, params, cfg, recipients, sockId, wire, opened,
                   other, probe, worldVars>>

\* a timer set by readLine fires: no newline arrived within timeoutMs
OnTimeout ==
    \E id \in rl.timer :
        /\ faults' = faults \cup {"silence"}
        /\ rl' = settle(cleanup(rl, id), id)
        /\ IF Pending(id)
           THEN /\ buf' = <<>>
                /\ nchunks' = 0
                /\ Throw("Timeout")
           ELSE UNCHANGED <<buf, nchunks, failure, pc, outcome, ended>>
        /\ UNCHANGED <<processEnv, sockets, params, cfg, recipients, sock, sockId, ri,
                       ehlo, boundary, wire, replies, errorInfo, opened, other, probe, worldVars>>

\* the callback of sock.write, and what follows it up to the next await
OnWritten(err) ==
    /\ pc \in WritePcs
    /\ wire' = Append(wire, [cmd |-> commandAt(pc), via |-> sock, sock |-> sockId,
                             ok |-> ~err, at |-> pc])
    /\ faults' = IF err THEN faults \cup {"write"} ELSE faults
    /\ IF pc = "catch_quit"
       THEN /\ Return("false")
            /\ UNCHANGED <<failure, rl>>
       ELSE IF err
       THEN /\ Throw("TransportError")
            /\ UNCHANGED rl
       ELSE IF pc = "quit_w"
       THEN /\ Return("true")
            /\ UNCHANGED <<failure, rl>>
       ELSE /\ pc' = readAfter(pc)
            /\ rl' = IF pc' \in ReadPcs THEN beginRead(rl) ELSE rl
            /\ UNCHANGED <<failure, outcome, ended>>
    /\ UNCHANGED <<processEnv, sockets, params, cfg, recipients, sock, sockId, buf,
                   nchunks, ri, ehlo, boundary, replies, errorInfo, opened, other, probe, worldVars>>

\* "secureConnect" on the TLS wrapper made after STARTTLS
OnSecureConnect ==
    /\ pc = "tls_hs"
    /\ pc' = "ehlo2_w"
    /\ UNCHANGED <<processEnv, sockets, params, cfg, recipients, sock, sockId, buf,
                   nchunks, rl, ri, ehlo, boundary, wire, replies, faults, failure,
                   errorInfo, opened, ended, outcome, other, probe, worldVars>>

\* "error" on the TLS wrapper made after STARTTLS
OnHandshakeError ==
    /\ pc = "tls_hs"
    /\ faults' = faults \cup {"handshake"}
    /\ Throw("TlsUpgradeError")
    /\ UNCHANGED <<processEnv, sockets, params, cfg, recipients, sock, sockId, buf,
                   nchunks, rl, ri, ehlo, boundary, wire, replies, errorInfo, opened,
                   other, probe, worldVars>>

Next ==
    \/ SendEmail
    \/ OnConnect
    \/ OnConnectError
    \/ \E chunk \in Chunks : OnData(chunk)
    \/ OnErr
    \/ OnTimeout
    \/ \E err \in BOOLEAN : OnWritten(err)
    \/ OnSecureConnect
    \/ OnHandshakeError

Spec == Init /\ [][Next]_vars

TypeOK ==
    /\ pc \in ReadPcs \cup WritePcs \cup {"start", "connecting", "tls_hs", "done"}
    /\ sock \in {"none", "plain", "tls"}
    /\ outcome \in {"pending", "true", "false", "raised"}
    /\ nchunks \in 0..MaxChunks
    /\ ri \in 0..Len(recipients)

\* ------------------------------------------------------------- the claims

Done == pc = "done"

Codes == [i \in DOMAIN replies |-> replies[i].code]

Verbs == [i \in DOMAIN wire |-> wire[i].cmd.verb]

WrittenAt(verb) == {i \in DOMAIN wire : wire[i].cmd.verb = verb}

Answered(at, codes) == \E i \in DOMAIN replies : replies[i].at = at /\ replies[i].code \in codes

EnvKeys == {"SMTP_HOST", "SMTP_PORT", "SMTP_USER", "SMTP_PASS", "SMTP_FROM"}

Blank(s) == \A i \in 1..Len(s) : s[i] \in WhiteSpace

FlagEnabled ==
    \E s \in {<<"t", "r", "u", "e">>, <<"T", "r", "u", "e">>, <<"T", "r", "u", "e", " ">>} :
        processEnv["SMTP_STARTTLS"] = s

PortIs465 == processEnv["SMTP_PORT"] \in {<<"4", "6", "5">>, <<" ", "4", "6", "5">>}

\* C1: sendEmail never raises to its caller: every call that has ended has
\* returned a boolean, and a call in which the transport failed or a step
\* threw has returned false.
C1_NeverRaises ==
    Done => /\ outcome \in {"true", "false"}
            /\ (faults # {} \/ failure # "none") => outcome = "false"

\* C2: sendEmail returns true only if the greeting was read as 220, the
\* authentication ended with 235, MAIL FROM was answered 250, an RCPT TO was
\* written for every parsed recipient, in order, and each was answered 250 or
\* 251, DATA was answered 354 and the message was answered 250.
C2_TrueOnlyIfEveryStepAccepted ==
    outcome = "true" =>
        /\ Answered("greet", {220})
        /\ Answered("pass_r", {235})
        /\ Answered("mail_r", {250})
        /\ LET rcpts == SelectSeq(wire, LAMBDA w : w.cmd.verb = "RCPT TO")
               answers == SelectSeq(replies, LAMBDA r : r.at = "rcpt_r")
           IN  /\ [i \in DOMAIN rcpts |-> rcpts[i].cmd.arg] = recipients
               /\ Len(answers) = Len(recipients)
               /\ \A i \in DOMAIN answers : answers[i].code \in {250, 251}
        /\ Answered("data_r", {354})
        /\ Answered("body_r", {250})

C2_Witness ==
    /\ outcome = "true"
    /\ Len(recipients) = 2
    /\ Answered("rcpt_r", {251})
    /\ Answered("rcpt_r", {250})

\* C3: when the transport never fails and the replies read are 220, 250 with
\* STARTTLS advertised, 220, 250, 334, 334, 235, 250, 250 for each of the N
\* recipients, 354 and 250, no step throws, and the call ends returning true
\* with exactly one DATA command written, exactly one payload written, right
\* after it, and the payload ending in CRLF.CRLF.
HappyCodes ==
    <<220, 250, 220, 250, 334, 334, 235, 250>>
        \o [k \in 1..Len(recipients) |-> 250] \o <<354, 250>>

HappyExchange == faults = {} /\ Codes = HappyCodes /\ advertisesStartTls(ehlo)

EndsInCrlfDotCrlf(segs) ==
    /\ Len(segs) >= 3
    /\ segs[Len(segs) - 1] = <<".">>
    /\ segs[Len(segs)] = <<>>

C3_HappyPathReturnsTrue ==
    HappyExchange =>
        /\ failure = "none"
        /\ Done =>
            /\ outcome = "true"
            /\ Cardinality(WrittenAt("DATA")) = 1
            /\ Cardinality(WrittenAt("PAYLOAD")) = 1
            /\ \A i \in WrittenAt("DATA") :
                   /\ i + 1 \in WrittenAt("PAYLOAD")
                   /\ EndsInCrlfDotCrlf(wire[i + 1].cmd.arg)

C3_Witness ==
    /\ HappyExchange
    /\ Done
    /\ outcome = "true"
    /\ Len(recipients) = 2
    /\ Verbs[Len(Verbs)] = "QUIT"

\* C4: once an RCPT TO has been answered with a code outside {250, 251},
\* every later write of the session is a QUIT (no further RCPT TO, no DATA),
\* the session is in its catch block or over, and when it is over a QUIT
\* write was attempted and sendEmail returned false.
C4_RejectedRecipientAborts ==
    \A i \in DOMAIN replies :
        (replies[i].at = "rcpt_r" /\ replies[i].code \notin {250, 251}) =>
            /\ \A j \in DOMAIN wire : j > replies[i].nw => wire[j].cmd.verb = "QUIT"
            /\ pc \in {"catch_quit", "done"}
            /\ Done => /\ outcome = "false"
                       /\ \E j \in DOMAIN wire : j > replies[i].nw

C4_Witness ==
    /\ Done
    /\ Len(recipients) = 2
    /\ ri = 1
    /\ Answered("rcpt_r", {550})
    /\ Verbs[Len(Verbs)] = "QUIT"
    /\ outcome = "false"

\* C5: a call that has ended has released the connection it opened exactly
\* once, and no call releases more often than it opened.
C5_ReleasedExactlyOnce ==
    /\ ended <= opened
    /\ Done => ended = opened

\* C6: when one of host, port, user, pass and from is empty after trimming,
\* the call returns false at once, with no connection opened and nothing
\* written.
C6_MissingConfigReturnsFalse ==
    ((\E k \in EnvKeys : Blank(processEnv[k])) /\ pc # "start") =>
        /\ Done
        /\ outcome = "false"
        /\ opened = 0
        /\ sock = "none"
        /\ wire = <<>>

C6_Witness ==
    /\ Done
    /\ Blank(processEnv["SMTP_FROM"])
    /\ \A k \in EnvKeys \ {"SMTP_FROM"} : ~Blank(processEnv[k])
    /\ parseRecipients(params.to) # <<>>
    /\ outcome = "false"

\* C7: when the recipient string holds nothing but white space and commas,
\* the call returns false at once and no connection is opened.
C7_NoRecipientReturnsFalse ==
    ((\A i \in 1..Len(params.to) : params.to[i] \in WhiteSpace \cup {","}) /\ pc # "start") =>
        /\ Done
        /\ outcome = "false"
        /\ opened = 0
        /\ sock = "none"

C7_Witness ==
    /\ Done
    /\ params.to = <<" ", ",", " ">>
    /\ \A k \in EnvKeys : ~Blank(processEnv[k])
    /\ outcome = "false"

\* C8: a STARTTLS command is written only when the port is not 465, the
\* STARTTLS flag is enabled and the text read after EHLO holds STARTTLS in
\* any case; and when the flag is enabled but that text does not hold it,
\* the session writes no STARTTLS, stays on the transport it connected with
\* and writes AUTH LOGIN next.
C8_StartTlsOnlyWhenAdvertised ==
    /\ WrittenAt("STARTTLS") # {} =>
           ~PortIs465 /\ FlagEnabled /\ advertisesStartTls(ehlo)
    /\ (FlagEnabled /\ Answered("ehlo_r", Int) /\ ~advertisesStartTls(ehlo)) =>
           /\ WrittenAt("STARTTLS") = {}
           /\ sock = (IF PortIs465 THEN "tls" ELSE "plain")
           /\ pc # "auth_w" => (Len(wire) >= 2 /\ wire[2].cmd.verb = "AUTH LOGIN")

C8_Witness ==
    /\ FlagEnabled
    /\ ~PortIs465
    /\ Answered("ehlo_r", {250})
    /\ ~advertisesStartTls(ehlo)
    /\ WrittenAt("AUTH LOGIN") # {}
    /\ Answered("auth_r", {334})
    /\ sock = "plain"

\* C9: a read whose timer fires before a newline has arrived fails with the
\* Timeout error: the session goes to its catch block, no step after it is
\* taken, and sendEmail returns false.
C9_TimeoutReturnsFalse ==
    "silence" \in faults =>
        /\ failure = "Timeout"
        /\ pc \in {"catch_quit", "done"}
        /\ Done => outcome = "false"

C9_Witness ==
    /\ Done
    /\ "silence" \in faults
    /\ Answered("data_r", {354})
    /\ ~Answered("body_r", Int)
    /\ outcome = "false"

\* C10: once the transmitted message has been answered 250, sendEmail
\* returns true, whatever happens to the QUIT write.
C10_QuitCannotChangeOutcome ==
    (Done /\ Answered("body_r", {250})) => outcome = "true"

\* C11: whichever error ends a session (a connection error, a timeout, an
\* unexpected response, a TLS upgrade error, a write error), the call ends
\* having attempted a QUIT write last, having closed its connection once,
\* and without the error leaving sendEmail.
C11_CleanupUnconditional ==
    (Done /\ (faults # {} \/ failure # "none")) =>
        /\ wire # <<>>
        /\ wire[Len(wire)].cmd.verb = "QUIT"
        /\ ended = 1
        /\ outcome = "false"

\* C12: no step is retried: after the first failed step every write is a
\* QUIT, QUIT is attempted at most once in a session, and no step of the
\* session (a command, or the RCPT TO of one recipient) is written twice.
C12_NoStepRetried ==
    /\ \A j \in DOMAIN wire :
           (~wire[j].ok /\ j < Len(wire)) =>
               \A k \in (j + 1)..Len(wire) : wire[k].cmd.verb = "QUIT"
    /\ Cardinality(WrittenAt("QUIT")) <= 1
    /\ \A j, k \in DOMAIN wire :
           (j < k /\ wire[j].at = wire[k].at) =>
               (wire[j].at = "rcpt_w" /\ wire[j].cmd.arg # wire[k].cmd.arg)

\* C13: there is no pipelining: between a command that expects a response
\* and the next write of the session, either a response has been read or the
\* step has failed and the next write is the QUIT of the catch block; one
\* command at most is outstanding.
C13_NoPipelining ==
    /\ \A j \in DOMAIN wire :
           (j < Len(wire) /\ wire[j].at # "quit_w") =>
               \/ \E i \in DOMAIN replies : replies[i].nw = j
               \/ wire[j + 1].at = "catch_quit"
    /\ \A i, k \in DOMAIN replies : i < k => replies[i].nw < replies[k].nw

C13_Witness ==
    /\ Done
    /\ outcome = "true"
    /\ Len(recipients) = 2
    /\ WrittenAt("STARTTLS") # {}
    /\ Len(wire) = 12

\* C15: each readLine call settles its promise exactly once, and when it has
\* settled, its data listener, its error listener and its timer are gone:
\* while a read is pending only that read's three registrations exist, and
\* between reads none, so no event can settle a finished read again.
C15_ReadLineSingleShot ==
    /\ Len(rl.settled) = rl.n
    /\ \A id \in 1..rl.n : rl.settled[id] <= 1
    /\ IF pc \in ReadPcs
       THEN /\ rl.n >= 1
            /\ rl.data = {rl.n} /\ rl.err = {rl.n} /\ rl.timer = {rl.n}
            /\ rl.settled[rl.n] = 0
            /\ \A id \in 1..(rl.n - 1) : rl.settled[id] = 1
       ELSE /\ rl.data = {} /\ rl.err = {} /\ rl.timer = {}
            /\ \A id \in 1..rl.n : rl.settled[id] = 1

C15_Witness ==
    /\ Done
    /\ rl.n = 9
    /\ failure = "TransportError"
    /\ "socket" \in faults

\* C16: the text readLine resolves with is exactly one line: it holds one
\* newline, at its end, and nothing after it.
ExactlyOneLine(text) ==
    /\ text[Len(text)] = LF
    /\ \A i \in 1..(Len(text) - 1) : text[i] # LF

C16_ReturnsExactlyTheNextLine ==
    /\ ehlo # <<>> => ExactlyOneLine(ehlo)
    /\ errorInfo.raw # <<>> => ExactlyOneLine(errorInfo.raw)

\* C18: expect throws exactly when the code parsed from the line read is
\* not in the accepted set of the step (0 for a line with no code included),
\* the error carries that code and the raw text read, and a line whose code
\* is in the set raises no such error.
C18_ExpectThrowsExactlyOnBadCode ==
    /\ \A i \in DOMAIN replies :
           replies[i].at \in ReadPcs \ {"ehlo_r", "ehlo2_r"} =>
               IF replies[i].code \in okCodes(replies[i].at)
               THEN i = Len(replies) => (failure # "UnexpectedResponse" /\ errorInfo = NoError)
               ELSE /\ i = Len(replies)
                    /\ failure = "UnexpectedResponse"
                    /\ errorInfo.code = replies[i].code
                    /\ errorInfo.raw # <<>>
                    /\ extractCode(errorInfo.raw) = replies[i].code
                    /\ pc \in {"catch_quit", "done"}
    /\ failure = "UnexpectedResponse" =>
           /\ replies # <<>>
           /\ replies[Len(replies)].at \in ReadPcs \ {"ehlo_r", "ehlo2_r"}
           /\ replies[Len(replies)].code \notin okCodes(replies[Len(replies)].at)
    /\ failure # "UnexpectedResponse" => errorInfo = NoError

C18_Witness ==
    /\ replies # <<>>
    /\ replies[Len(replies)].at = "mail_r"
    /\ failure = "UnexpectedResponse"
    /\ errorInfo = [code |-> 550, raw |-> <<"5", "5", "0", " ", "n", "o", CR, LF>>]

\* C20: commands are written in phase order, each after the accepted reply
\* of the phase before: EHLO after a 220 greeting; AUTH LOGIN after the EHLO
\* exchange, and after the upgrade and the second EHLO exchange when
\* STARTTLS was written; the user name after 334; the password after a
\* second 334; MAIL FROM after 235; RCPT TO after 250 to MAIL FROM, each
\* further one after the one before was accepted; DATA after every recipient
\* was accepted; the payload after 354; and the phase never moves backwards.
AnsweredBefore(j, at, codes) ==
    \E i \in DOMAIN replies :
        replies[i].at = at /\ replies[i].code \in codes /\ replies[i].nw < j

AcceptedRcptsBefore(j) ==
    Cardinality({i \in DOMAIN replies :
                    replies[i].at = "rcpt_r" /\ replies[i].code \in {250, 251}
                    /\ replies[i].nw < j})

Phase(at) ==
    CASE at = "ehlo_w" -> 1 [] at = "stls_w" -> 2 [] at = "ehlo2_w" -> 3
      [] at = "auth_w" -> 4 [] at = "user_w" -> 5 [] at = "pass_w" -> 6
      [] at = "mail_w" -> 7 [] at = "rcpt_w" -> 8 [] at = "data_w" -> 9
      [] at = "body_w" -> 10 [] at = "quit_w" -> 11 [] at = "catch_quit" -> 11

C20_PhaseOrder ==
    /\ \A j \in DOMAIN wire :
        LET at == wire[j].at IN
        /\ at = "ehlo_w" => AnsweredBefore(j, "greet", {220})
        /\ at = "stls_w" => AnsweredBefore(j, "ehlo_r", Int)
        /\ at = "ehlo2_w" => AnsweredBefore(j, "stls_r", {220}) /\ wire[j].via = "tls"
        /\ at = "auth_w" =>
               /\ AnsweredBefore(j, "ehlo_r", Int)
               /\ WrittenAt("STARTTLS") # {} =>
                      AnsweredBefore(j, "ehlo2_r", Int) /\ wire[j].via = "tls"
        /\ at = "user_w" => AnsweredBefore(j, "auth_r", {334})
        /\ at = "pass_w" => AnsweredBefore(j, "user_r", {334})
        /\ at = "mail_w" => AnsweredBefore(j, "pass_r", {235})
        /\ at = "rcpt_w" =>
               /\ AnsweredBefore(j, "mail_r", {250})
               /\ \E k \in DOMAIN recipients :
                      wire[j].cmd.arg = recipients[k] /\ AcceptedRcptsBefore(j) = k - 1
        /\ at = "data_w" => AcceptedRcptsBefore(j) = Len(recipients)
        /\ at = "body_w" => AnsweredBefore(j, "data_r", {354})
        /\ at = "quit_w" => AnsweredBefore(j, "body_r", {250})
    /\ \A j, k \in DOMAIN wire : j < k => Phase(wire[j].at) <= Phase(wire[k].at)

C20_Witness ==
    /\ Done
    /\ outcome = "true"
    /\ WrittenAt("STARTTLS") # {}
    /\ Len(recipients) = 2
    /\ Answered("rcpt_r", {251})

\* C21: once STARTTLS has been written, nothing but a closing QUIT is ever
\* written to the plain transport: every later EHLO, AUTH LOGIN, credential,
\* envelope command, DATA and payload is written to the TLS transport, after
\* the 220 reply and the completed handshake, and so is the QUIT of a session
\* whose upgrade was accepted; when the upgrade fails no AUTH is written.
Upgraded == Answered("stls_r", {220}) /\ "handshake" \notin faults /\ pc # "tls_hs"

C21_NoCredentialsInClearAfterStartTls ==
    \A j \in WrittenAt("STARTTLS") :
        /\ wire[j].via = "plain"
        /\ \A k \in DOMAIN wire :
               k > j =>
                   /\ wire[k].cmd.verb # "QUIT" => (wire[k].via = "tls" /\ Upgraded)
                   /\ (wire[k].cmd.verb = "QUIT" /\ Answered("stls_r", {220}))
                          => wire[k].via = "tls"
        /\ ~Upgraded => WrittenAt("AUTH LOGIN") \cup WrittenAt("CRED") = {}

C21_Witness ==
    /\ Done
    /\ outcome = "true"
    /\ WrittenAt("STARTTLS") # {}
    /\ \A k \in WrittenAt("CRED") \cup WrittenAt("AUTH LOGIN") \cup WrittenAt("QUIT") :
           wire[k].via = "tls"
    /\ Cardinality(WrittenAt("CRED")) = 2

\* C23: the code of the reply to EHLO is not enforced: whatever line is read
\* after EHLO, the step does not fail on it, and the next command is STARTTLS
\* or AUTH LOGIN, STARTTLS exactly when the port is not 465, the flag is set
\* and the line holds the text STARTTLS in any case; the line read after the
\* second EHLO is dropped and AUTH LOGIN follows it.
StartTlsTextIn(text) ==
    \E i \in 1..Len(text) :
        /\ i + 7 <= Len(text)
        /\ toLowerCase(SubSeq(text, i, i + 7)) = <<"s", "t", "a", "r", "t", "t", "l", "s">>

NextStepAfter(i) ==
    IF Len(wire) > replies[i].nw THEN wire[replies[i].nw + 1].at ELSE pc

C23_EhloCodeNotEnforced ==
    \A i \in DOMAIN replies :
        /\ replies[i].at = "ehlo_r" =>
               /\ NextStepAfter(i) \in {"stls_w", "auth_w"}
               /\ NextStepAfter(i) = "stls_w"
                      <=> (cfg.port # 465 /\ cfg.useStartTls /\ StartTlsTextIn(ehlo))
        /\ replies[i].at = "ehlo2_r" => NextStepAfter(i) = "auth_w"
        /\ (replies[i].at \in {"ehlo_r", "ehlo2_r"} /\ i = Len(replies))
               => failure # "UnexpectedResponse"

C23_Witness ==
    /\ outcome = "true"
    /\ Answered("ehlo_r", {550})
    /\ WrittenAt("AUTH LOGIN") # {}

\* ------------------------------------------------- two calls in one process

\* every local of a sendEmail call, from params to the promise's outcome
CallRecord ==
    [params |-> params, pc |-> pc, cfg |-> cfg, recipients |-> recipients, sock |-> sock,
     sockId |-> sockId, buf |-> buf, nchunks |-> nchunks, rl |-> rl, ri |-> ri,
     ehlo |-> ehlo, boundary |-> boundary, wire |-> wire, replies |-> replies,
     faults |-> faults, failure |-> failure, errorInfo |-> errorInfo, opened |-> opened,
     ended |-> ended, outcome |-> outcome]

\* what a peer delivers at each read when two calls run: the reply line that
\* lets the call go on, or a refusal
PairChunks(at) ==
    LET go == CASE at \in {"greet", "stls_r"}   -> <<"2", "2", "0", " ", "o", "k", CR, LF>>
                [] at \in {"auth_r", "user_r"}  -> <<"3", "3", "4", LF>>
                [] at = "pass_r"                -> <<"2", "3", "5", LF>>
                [] at = "data_r"                -> <<"3", "5", "4", LF>>
                [] OTHER                        -> <<"2", "5", "0", LF>>
    IN  IF at \in ExpectPcs
        THEN {go, <<"5", "5", "0", " ", "n", "o", CR, LF>>}
        ELSE {go}

PairTo == << <<",", "b", " ", ",">>, <<"a", ",", " ", "b">> >>

InitPair ==
    /\ processEnv = [SMTP_HOST |-> <<"h">>, SMTP_PORT |-> <<" ", "5", "8", "7">>,
                     SMTP_USER |-> <<"u">>, SMTP_PASS |-> <<"p">>,
                     SMTP_FROM |-> <<"f", " ">>, SMTP_STARTTLS |-> <<>>]
    /\ params = [to |-> PairTo[1], subject |-> <<"s">>, html |-> << <<"<", "p", ">">> >>]
    /\ sockets = 0
    /\ Fresh
    /\ other = [params |-> [to |-> PairTo[2], subject |-> <<"s">>,
                            html |-> << <<"<", "p", ">">> >>],
                pc |-> "start", cfg |-> NoConfig, recipients |-> <<>>, sock |-> "none",
                sockId |-> 0, buf |-> <<>>, nchunks |-> 0, rl |-> NoReads, ri |-> 0,
                ehlo |-> <<>>, boundary |-> "none", wire |-> <<>>, replies |-> <<>>,
                faults |-> {}, failure |-> "none", errorInfo |-> NoError, opened |-> 0,
                ended |-> 0, outcome |-> "pending"]
    /\ probe = NoProbe
    /\ NoWorld

\* the event loop with sock a binding of the module that the calls share
SwitchSharingSock ==
    /\ other # NoCall
    /\ other' = CallRecord
    /\ params' = other.params
    /\ pc' = other.pc
    /\ cfg' = other.cfg
    /\ recipients' = other.recipients
    /\ buf' = other.buf
    /\ nchunks' = other.nchunks
    /\ rl' = other.rl
    /\ ri' = other.ri
    /\ ehlo' = other.ehlo
    /\ boundary' = other.boundary
    /\ wire' = other.wire
    /\ replies' = other.replies
    /\ faults' = other.faults
    /\ failure' = other.failure
    /\ errorInfo' = other.errorInfo
    /\ opened' = other.opened
    /\ ended' = other.ended
    /\ outcome' = other.outcome
    /\ UNCHANGED <<processEnv, sockets, sock, sockId, probe, worldVars>>

\* the event loop turns to the other call: the running call stays suspended
\* at its await with all its locals, and the other call's locals are in scope
Switch ==
    /\ other # NoCall
    /\ other' = CallRecord
    /\ params' = other.params
    /\ pc' = other.pc
    /\ cfg' = other.cfg
    /\ recipients' = other.recipients
    /\ sock' = other.sock
    /\ sockId' = other.sockId
    /\ buf' = other.buf
    /\ nchunks' = other.nchunks
    /\ rl' = other.rl
    /\ ri' = other.ri
    /\ ehlo' = other.ehlo
    /\ boundary' = other.boundary
    /\ wire' = other.wire
    /\ replies' = other.replies
    /\ faults' = other.faults
    /\ failure' = other.failure
    /\ errorInfo' = other.errorInfo
    /\ opened' = other.opened
    /\ ended' = other.ended
    /\ outcome' = other.outcome
    /\ UNCHANGED <<processEnv, sockets, probe, worldVars>>

NextPair ==
    \/ SendEmail
    \/ OnConnect
    \/ OnConnectError
    \/ \E chunk \in PairChunks(pc) : OnData(chunk)
    \/ OnErr
    \/ OnTimeout
    \/ \E err \in BOOLEAN : OnWritten(err)
    \/ Switch

PairSpec == InitPair /\ [][NextPair]_vars

\* C14: two sendEmail calls that run at the same time are independent: each
\* opens one connection of its own, no socket is the socket of both, every
\* command of a call is written on the call's own socket and is made of the
\* call's own parameters, and the result of a call is what its own exchange
\* gives, whatever the other call did.
PayloadOf(c) ==
    dataPayload(makeMime(c.cfg.from, join(parseRecipients(c.params.to)),
                         c.params.subject, c.params.html, c.boundary))

RcptArgs(c) ==
    LET rcpts == SelectSeq(c.wire, LAMBDA w : w.cmd.verb = "RCPT TO")
    IN  [i \in DOMAIN rcpts |-> rcpts[i].cmd.arg]

OwnCommands(c) ==
    /\ \A j \in DOMAIN c.wire :
           /\ c.wire[j].sock = c.sockId
           /\ c.sockId # 0
           /\ c.wire[j].cmd.verb = "MAIL FROM" => c.wire[j].cmd.arg = c.cfg.from
           /\ c.wire[j].cmd.verb = "PAYLOAD" => c.wire[j].cmd.arg = PayloadOf(c)
    /\ Len(RcptArgs(c)) <= Len(parseRecipients(c.params.to))
    /\ RcptArgs(c) = SubSeq(parseRecipients(c.params.to), 1, Len(RcptArgs(c)))

OwnResult(c) ==
    c.pc = "done" =>
        /\ c.outcome = "true" <=>
               /\ c.faults = {}
               /\ Len(c.replies) = 8 + Len(parseRecipients(c.params.to))
               /\ \A i \in DOMAIN c.replies :
                      c.replies[i].at \in ExpectPcs
                          => c.replies[i].code \in okCodes(c.replies[i].at)
        /\ c.outcome = "true" => RcptArgs(c) = parseRecipients(c.params.to)

C14_CallsIndependent ==
    other # NoCall =>
        /\ OwnCommands(CallRecord)
        /\ OwnCommands(other)
        /\ OwnResult(CallRecord)
        /\ OwnResult(other)
        /\ opened <= 1 /\ other.opened <= 1
        /\ sockets = opened + other.opened
        /\ (sockId # 0 /\ other.sockId # 0) => sockId # other.sockId
        /\ \A j \in DOMAIN wire, k \in DOMAIN other.wire : wire[j].sock # other.wire[k].sock

C14_Witness ==
    /\ other # NoCall
    /\ pc \in ReadPcs /\ other.pc \in ReadPcs
    /\ sockId # 0 /\ other.sockId # 0 /\ sockId # other.sockId
    /\ \E j \in DOMAIN wire : wire[j].cmd.verb = "RCPT TO"
    /\ \E j \in DOMAIN other.wire : other.wire[j].cmd.verb = "RCPT TO"
    /\ RcptArgs(CallRecord) # RcptArgs(other)

\* ------------------------------- process.env changing while a call is in flight

\* the values process.env goes through
EnvStates ==
    { [SMTP_HOST |-> <<"h">>, SMTP_PORT |-> <<" ", "5", "8", "7">>, SMTP_USER |-> <<"u">>,
       SMTP_PASS |-> <<"p">>, SMTP_FROM |-> <<"f", " ">>, SMTP_STARTTLS |-> <<>>],
      [SMTP_HOST |-> <<"i">>, SMTP_PORT |-> <<" ", "5", "8", "7">>, SMTP_USER |-> <<"v">>,
       SMTP_PASS |-> <<"q">>, SMTP_FROM |-> <<"g">>,
       SMTP_STARTTLS |-> <<"T", "r", "u", "e", " ">>],
      [SMTP_HOST |-> <<"h">>, SMTP_PORT |-> <<"4", "6", "5">>, SMTP_USER |-> <<"u">>,
       SMTP_PASS |-> <<"p">>, SMTP_FROM |-> <<>>, SMTP_STARTTLS |-> <<>>] }

\* what the peer delivers at each read: the line that lets the call go on (an
\* EHLO reply with or without the STARTTLS offer), or a refusal
EnvChunks(at) ==
    IF at = "ehlo_r"
    THEN PairChunks(at) \cup {<<"2", "5", "0", "-", "S", "T", "A", "R", "T", "T", "L", "S", CR, LF>>}
    ELSE PairChunks(at)

InitEnv ==
    /\ processEnv \in EnvStates
    /\ params = [to |-> <<"a", ",", " ", "b">>, subject |-> <<"s">>,
                 html |-> << <<"<", "p", ">">> >>]
    /\ sockets = 0
    /\ Fresh
    /\ other = NoCall
    /\ probe = NoProbe
    /\ NoWorld

\* an assignment to process.env by any other code of the process
SetEnv ==
    /\ \E e \in EnvStates \ {processEnv} : processEnv' = e
    /\ UNCHANGED <<sockets, callVars, other, probe, worldVars>>

NextEnv ==
    \/ SendEmail
    \/ OnConnect
    \/ OnConnectError
    \/ \E chunk \in EnvChunks(pc) : OnData(chunk)
    \/ OnTimeout
    \/ \E err \in BOOLEAN : OnWritten(err)
    \/ OnSecureConnect
    \/ OnHandshakeError
    \/ SetEnv

EnvSpec == InitEnv /\ [][NextEnv]_vars

\* C24: the configuration is read once, when the call starts, all of it in
\* the step that made the presence check, and the call uses those values to
\* its end: the locals never change afterwards, whatever process.env becomes,
\* and the transport, the STARTTLS decision, the credentials and the sender
\* address on the wire are those of the locals.
ConfigIn(e) ==
    [host |-> trim(e.SMTP_HOST),
     port |-> Number(trim(e.SMTP_PORT)),
     user |-> trim(e.SMTP_USER),
     pass |-> trim(e.SMTP_PASS),
     from |-> trim(e.SMTP_FROM),
     useStartTls |-> toLowerCase(trim(e.SMTP_STARTTLS)) = <<"t", "r", "u", "e">>]

PresentIn(e) == \A k \in EnvKeys : trim(e[k]) # <<>>

UsesItsConfig ==
    /\ \A j \in DOMAIN wire :
           /\ wire[j].at = "user_w" => wire[j].cmd.arg = b64(cfg.user)
           /\ wire[j].at = "pass_w" => wire[j].cmd.arg = b64(cfg.pass)
           /\ wire[j].at = "mail_w" => wire[j].cmd.arg = cfg.from
           /\ wire[j].at = "body_w" => wire[j].cmd.arg[1] = <<"From: ">> \o cfg.from
    /\ WrittenAt("STARTTLS") # {} => (cfg.useStartTls /\ cfg.port # 465)
    /\ (wire # <<>> /\ wire[1].via = "tls") <=> (wire # <<>> /\ cfg.port = 465)

C24_ConfigReadOnce ==
    [][ /\ (pc = "start" /\ pc' = "connecting")
            => (PresentIn(processEnv) /\ cfg' = ConfigIn(processEnv))
        /\ pc # "start" => cfg' = cfg
        /\ UsesItsConfig' ]_vars

C24_Witness ==
    /\ outcome = "true"
    /\ WrittenAt("STARTTLS") = {}
    /\ processEnv.SMTP_STARTTLS # <<>>
    /\ ConfigIn(processEnv).from # cfg.from
    /\ ConfigIn(processEnv).user # cfg.user
    /\ \E i \in DOMAIN replies : replies[i].at = "ehlo_r" /\ StartTlsTextIn(ehlo)

\* ------------------------------------ the peer followed reply line by reply line

\* the lines an SMTP server sends in reply to the command written at step at;
\* its reply to EHLO has one line for each extension and a last line
ServerLines(at) ==
    CASE at \in {"ehlo_w", "ehlo2_w"} ->
             << <<"2", "5", "0", "-", "S", "T", "A", "R", "T", "T", "L", "S", CR, LF>>,
                <<"2", "5", "0", LF>> >>
      [] at = "stls_w"              -> << <<"2", "2", "0", " ", "o", "k", CR, LF>> >>
      [] at \in {"auth_w", "user_w"} -> << <<"3", "3", "4", LF>> >>
      [] at = "pass_w"              -> << <<"2", "3", "5", LF>> >>
      [] at = "data_w"              -> << <<"3", "5", "4", LF>> >>
      [] at \in {"quit_w", "catch_quit"} -> <<>>
      [] OTHER                      -> << <<"2", "5", "0", LF>> >>

Greeting == <<"2", "2", "0", " ", "o", "k", CR, LF>>

InitPeer ==
    /\ processEnv = [SMTP_HOST |-> <<"h">>, SMTP_PORT |-> <<" ", "5", "8", "7">>,
                     SMTP_USER |-> <<"u">>, SMTP_PASS |-> <<"p">>,
                     SMTP_FROM |-> <<"f", " ">>, SMTP_STARTTLS |-> <<>>]
    /\ params = [to |-> <<"a", ",", " ", "b">>, subject |-> <<"s">>,
                 html |-> << <<"<", "p", ">">> >>]
    /\ sockets = 0
    /\ Fresh
    /\ other = NoCall
    /\ probe = NoProbe
    /\ peer = [served |-> -1, queue |-> <<>>, held |-> {}, taken |-> <<>>, lost |-> {}]
    /\ db = NoDb
    /\ reqs = NoReqs
    /\ now = 0

\* the server sends its greeting, or its reply to the next command it received
Serve ==
    /\ pc \notin {"start", "connecting", "done"}
    /\ IF peer.served = -1
       THEN peer' = [peer EXCEPT !.served = 0,
                                 !.queue = Append(@, [text |-> Greeting, for |-> 0])]
       ELSE /\ peer.served < Len(wire)
            /\ LET k == peer.served + 1
                   lines == IF wire[k].ok THEN ServerLines(wire[k].at) ELSE <<>>
               IN  peer' = [peer EXCEPT
                               !.served = k,
                               !.queue = @ \o [i \in DOMAIN lines |->
                                                  [text |-> lines[i], for |-> k]]]
    /\ UNCHANGED <<processEnv, sockets, callVars, other, probe, db, reqs, now>>

RECURSIVE TextOf(_)
TextOf(lines) == IF lines = <<>> THEN <<>> ELSE Head(lines).text \o TextOf(Tail(lines))

\* a "data" event with the next n lines the server sent, while a readLine listens
Deliver(n) ==
    /\ n \in 1..Len(peer.queue)
    /\ LET lines == SubSeq(peer.queue, 1, n)
           tags == {lines[i].for : i \in DOMAIN lines}
       IN  /\ onData(TextOf(lines))
           /\ peer' = [peer EXCEPT
                          !.queue = SubSeq(@, n + 1, Len(@)),
                          !.held = IF buf' = <<>> THEN {} ELSE @ \cup tags,
                          !.taken = IF buf' = <<>> THEN Append(@, peer.held \cup tags)
                                    ELSE @]

\* a "data" event between two reads: the stream flows since the first
\* sock.on("data"), cleanup took the listener off, and nothing receives the chunk
Unheard(n) ==
    /\ n \in 1..Len(peer.queue)
    /\ pc \in WritePcs
    /\ rl.n >= 1
    /\ rl.data = {}
    /\ LET lines == SubSeq(peer.queue, 1, n)
       IN  peer' = [peer EXCEPT !.queue = SubSeq(@, n + 1, Len(@)),
                                !.lost = @ \cup {lines[i].for : i \in DOMAIN lines}]
    /\ UNCHANGED <<processEnv, sockets, callVars, other, probe, db, reqs, now>>

NextPeer ==
    \/ SendEmail
    \/ OnConnect
    \/ Serve
    \/ \E n \in 1..MaxLinesPerChunk : Deliver(n)
    \/ \E n \in 1..MaxLinesPerChunk : Unheard(n)
    \/ OnTimeout
    \/ \E err \in BOOLEAN : OnWritten(err)

PeerSpec == InitPeer /\ [][NextPeer]_vars

\* C22: every text a step reads is the server's reply to the command the step
\* just wrote (the greeting for the first read) and holds no line of another
\* reply, and while the session goes on no line the server sent is dropped
\* between two reads.
C22_RepliesMatchCommands ==
    /\ Len(peer.taken) = Len(replies)
    /\ \A i \in DOMAIN replies : peer.taken[i] = {replies[i].nw}
    /\ failure = "none" => peer.lost = {}

\* ------------------------------------------------ what the runtime guarantees

\* both ways to TLS: STARTTLS on port 587, and TLS from the start on port 465
LiveEnvs ==
    { [SMTP_HOST |-> <<"h">>, SMTP_PORT |-> <<" ", "5", "8", "7">>, SMTP_USER |-> <<"u">>,
       SMTP_PASS |-> <<"p">>, SMTP_FROM |-> <<"f", " ">>,
       SMTP_STARTTLS |-> <<"T", "r", "u", "e", " ">>],
      [SMTP_HOST |-> <<"h">>, SMTP_PORT |-> <<"4", "6", "5">>, SMTP_USER |-> <<"u">>,
       SMTP_PASS |-> <<"p">>, SMTP_FROM |-> <<"f", " ">>, SMTP_STARTTLS |-> <<>>] }

InitLive ==
    /\ processEnv \in LiveEnvs
    /\ params = [to |-> <<"a", ",", " ", "b">>, subject |-> <<"s">>,
                 html |-> << <<"<", "p", ">">> >>]
    /\ sockets = 0
    /\ Fresh
    /\ other = NoCall
    /\ probe = NoProbe
    /\ NoWorld

NextLive ==
    \/ SendEmail
    \/ OnConnect
    \/ OnConnectError
    \/ \E chunk \in EnvChunks(pc) : OnData(chunk)
    \/ OnErr
    \/ OnTimeout
    \/ \E err \in BOOLEAN : OnWritten(err)
    \/ OnSecureConnect
    \/ OnHandshakeError

\* the TCP connect of net.connect ends by itself: the kernel gives up its SYN retries
PlainConnectEnds == sock = "plain" /\ (OnConnect \/ OnConnectError)

\* The event loop runs the call's synchronous stretch, fires every timer that
\* is still set, and calls back every sock.write; the kernel ends a TCP connect
\* attempt. Nothing makes a peer speak: no "data", "secureConnect" or
\* "error" event is promised.
LiveSpec ==
    /\ InitLive
    /\ [][NextLive]_vars
    /\ WF_vars(SendEmail)
    /\ WF_vars(OnTimeout)
    /\ WF_vars(\E err \in BOOLEAN : OnWritten(err))
    /\ WF_vars(PlainConnectEnds)

\* C26: every sendEmail call eventually completes, whatever the peer does.
C26_EventuallyCompletes == <>Done

\* while a read is awaited, the timer of readLine does end the call
ReadsEnd == (pc \in ReadPcs) ~> (Done \/ pc = "tls_hs")

\* ------------------------------------------------------- the alert evaluator

\* the requests that evaluate readings of one device at the same time
Requests == {1, 2}

\* a value of req.body: a number, or a field left out
num(n) == [type |-> "number", value |-> n]
undefined == [type |-> "undefined", value |-> 0]

\* req.body: a device id and two of the measures
Bodies ==
    { [device_id |-> <<" ", "d">>, salinity |-> num(12), battery |-> num(5)],
      [device_id |-> <<" ", "d">>, salinity |-> num(12), battery |-> undefined],
      [device_id |-> <<" ", "d">>, salinity |-> num(5), battery |-> undefined],
      [device_id |-> <<" ">>, salinity |-> num(12), battery |-> num(5)] }

\* the alert_settings row of the device, if it has one; its thresholds are numbers
SettingsRows ==
    { [salinity_high |-> 10, battery_low |-> 20, cooldown_minutes |-> 2,
       email_to |-> <<" ", "a">>, enabled |-> TRUE],
      [salinity_high |-> 10, battery_low |-> 20, cooldown_minutes |-> 2,
       email_to |-> <<" ", "a">>, enabled |-> FALSE] }

\* the settings evaluateReading takes when the device has no row
DefaultSettings ==
    [salinity_high |-> 10, battery_low |-> 20, cooldown_minutes |-> 15,
     email_to |-> <<>>, enabled |-> TRUE]

\* typeof v === "number"
isNumber(v) == v.type = "number"

\* the checks evaluateReading makes on these measures, in the order it makes them
AlertTypes == <<"salinity_high", "battery_low">>

triggers(type, body, st) ==
    CASE type = "salinity_high" ->
             isNumber(body.salinity) /\ body.salinity.value > st.salinity_high
      [] type = "battery_low" ->
             isNumber(body.battery) /\ body.battery.value < st.battery_low

\* a request that has not come in
NoRequest ==
    [pc |-> "idle", body |-> [device_id |-> <<>>, salinity |-> undefined, battery |-> undefined],
     deviceId |-> <<>>, emailTo |-> <<>>, cooldown |-> 0, todo |-> <<>>,
     created |-> <<>>, sent |-> "none", failed |-> FALSE, response |-> "none"]

\* the accepting reply of each step, and at RCPT TO a refusal as well
EvalChunks(at) ==
    IF at = "rcpt_r" THEN PairChunks(at)
    ELSE PairChunks(at) \ {<<"5", "5", "0", " ", "n", "o", CR, LF>>}

InitEval ==
    /\ processEnv \in
           { [SMTP_HOST |-> <<"h">>, SMTP_PORT |-> <<" ", "5", "8", "7">>,
              SMTP_USER |-> <<"u">>, SMTP_PASS |-> <<"p">>, SMTP_FROM |-> <<"f", " ">>,
              SMTP_STARTTLS |-> <<>>],
             [SMTP_HOST |-> <<>>, SMTP_PORT |-> <<" ", "5", "8", "7">>,
              SMTP_USER |-> <<"u">>, SMTP_PASS |-> <<"p">>, SMTP_FROM |-> <<"f", " ">>,
              SMTP_STARTTLS |-> <<>>] }
    /\ params = [to |-> <<>>, subject |-> <<>>, html |-> <<>>]
    /\ sockets = 0
    /\ Fresh
    /\ other = NoCall
    /\ probe = NoProbe
    /\ peer = NoPeer
    /\ db \in [settings : {<<>>} \cup {<<row>> : row \in SettingsRows}, alerts : {<<>>}]
    /\ reqs = [r \in Requests |-> NoRequest]
    /\ now = 0

\* res.json / res.status(..).json: the request is answered
respond(q, what) == [q EXCEPT !.pc = "done", !.response = what]

\* the catch block of evaluateReading: a rejected query, or sendEmail raising
caught(q) == [q EXCEPT !.pc = "done", !.response = "500", !.failed = TRUE]

\* evaluateReading from the end of one check to its next await: the
\* shouldCooldown query of the next check that triggers, or, after the last
\* check, the call of sendEmail when alerts were created and a recipient is
\* set, or the ok response
nextCheck(q) ==
    IF q.todo # <<>> THEN [q EXCEPT !.pc = "cool"]
    ELSE IF q.created # <<>> /\ q.emailTo # <<>> THEN [q EXCEPT !.pc = "mail"]
    ELSE respond(q, "ok")

\* evaluateReading from its entry to the getSettings query
Evaluate(r, body) ==
    /\ reqs[r].pc = "idle"
    /\ LET deviceId == trim(body.device_id)
       IN  reqs' = [reqs EXCEPT ![r] =
                       IF deviceId = <<>> THEN respond(@, "400")
                       ELSE [@ EXCEPT !.pc = "settings", !.deviceId = deviceId,
                                      !.body = body]]
    /\ UNCHANGED <<processEnv, sockets, callVars, other, probe, peer, db, now>>

\* cooldownMinutes of the device: Number(settings.cooldown_minutes || 15)
CooldownOfDevice ==
    LET st == IF db.settings = <<>> THEN DefaultSettings ELSE db.settings[1]
    IN  IF st.cooldown_minutes = 0 THEN 15 ELSE st.cooldown_minutes

\* the getSettings query answers, and the checks start
GotSettings(r, ok) ==
    /\ reqs[r].pc = "settings"
    /\ LET q == reqs[r]
           body == q.body
           st == IF db.settings = <<>> THEN DefaultSettings ELSE db.settings[1]
       IN  reqs' = [reqs EXCEPT ![r] =
                       IF ~ok THEN caught(q)
                       ELSE IF ~st.enabled THEN respond(q, "ok")
                       ELSE nextCheck([q EXCEPT
                                !.emailTo = trim(st.email_to),
                                !.cooldown = CooldownOfDevice,
                                !.todo = SelectSeq(AlertTypes,
                                                   LAMBDA t : triggers(t, body, st))])]
    /\ UNCHANGED <<processEnv, sockets, callVars, other, probe, peer, db, now>>

\* the rows of one type, newest last
rowsOf(type) == SelectSeq(db.alerts, LAMBDA a : a.type = type)

\* shouldCooldown: the newest row of the type was made less than cooldownMinutes ago
shouldCooldown(type, cooldownMinutes) ==
    /\ rowsOf(type) # <<>>
    /\ now - rowsOf(type)[Len(rowsOf(type))].created_at < cooldownMinutes

\* the query of shouldCooldown answers
CooldownAnswered(r, ok) ==
    /\ reqs[r].pc = "cool"
    /\ LET q == reqs[r]
       IN  reqs' = [reqs EXCEPT ![r] =
                       IF ~ok THEN caught(q)
                       ELSE IF shouldCooldown(Head(q.todo), q.cooldown)
                       THEN nextCheck([q EXCEPT !.todo = Tail(@)])
                       ELSE [q EXCEPT !.pc = "insert"]]
    /\ UNCHANGED <<processEnv, sockets, callVars, other, probe, peer, db, now>>

\* createAlert: the INSERT answers with the new row
Inserted(r, ok) ==
    /\ reqs[r].pc = "insert"
    /\ LET q == reqs[r]
           row == [id |-> Len(db.alerts) + 1, type |-> Head(q.todo), created_at |-> now,
                   email_sent |-> FALSE, email_to |-> q.emailTo, by |-> r]
       IN  IF ~ok
           THEN /\ reqs' = [reqs EXCEPT ![r] = caught(q)]
                /\ UNCHANGED db
           ELSE /\ db' = [db EXCEPT !.alerts = Append(@, row)]
                /\ reqs' = [reqs EXCEPT ![r] =
                               nextCheck([q EXCEPT !.todo = Tail(@),
                                                   !.created = Append(@, row.id)])]
    /\ UNCHANGED <<processEnv, sockets, callVars, other, probe, peer, now>>

\* the html of the notification: one list item for each created alert
alertsHtml(created) == [i \in DOMAIN created |-> <<"<li>", db.alerts[created[i]].type>>]

\* evaluateReading calls sendEmail({ to: emailTo, subject, html })
CallSendEmail(r) ==
    /\ reqs[r].pc = "mail"
    /\ pc = "start"
    /\ \A o \in Requests : reqs[o].pc # "sending"
    /\ params' = [to |-> reqs[r].emailTo,
                  subject |-> <<"[Water Monitoring] ">> \o reqs[r].deviceId
                                  \o <<": ", Len(reqs[r].created), " alert(s)">>,
                  html |-> alertsHtml(reqs[r].created)]
    /\ reqs' = [reqs EXCEPT ![r].pc = "sending"]
    /\ UNCHANGED <<processEnv, sockets, pc, cfg, recipients, sock, sockId, buf, nchunks,
                   rl, ri, ehlo, boundary, wire, replies, faults, failure, errorInfo,
                   opened, ended, outcome, other, probe, peer, db, now>>

\* the promise of sendEmail settles: ok is its value, or it rejects into the catch
SendReturned(r) ==
    /\ reqs[r].pc = "sending"
    /\ pc = "done"
    /\ reqs' = [reqs EXCEPT ![r] =
                   CASE outcome = "true"   -> [@ EXCEPT !.pc = "update", !.sent = "true"]
                     [] outcome = "false"  -> respond([@ EXCEPT !.sent = "false"], "ok")
                     [] outcome = "raised" ->
                            [@ EXCEPT !.pc = "done", !.response = "500", !.sent = "raised"]]
    /\ pc' = "start"
    /\ cfg' = NoConfig
    /\ recipients' = <<>>
    /\ sock' = "none"
    /\ sockId' = 0
    /\ buf' = <<>>
    /\ nchunks' = 0
    /\ rl' = NoReads
    /\ ri' = 0
    /\ ehlo' = <<>>
    /\ boundary' = "none"
    /\ wire' = <<>>
    /\ replies' = <<>>
    /\ faults' = {}
    /\ failure' = "none"
    /\ errorInfo' = NoError
    /\ opened' = 0
    /\ ended' = 0
    /\ outcome' = "pending"
    /\ UNCHANGED <<processEnv, sockets, params, other, probe, peer, db, now>>

\* the ids of every row of the table
createdIdsOfAllRows(q) == {db.alerts[i].id : i \in DOMAIN db.alerts}

\* created.map((a) => a.id)
createdIds(q) == {q.created[i] : i \in DOMAIN q.created}

\* UPDATE alerts SET email_sent = TRUE WHERE id = ANY(created ids) answers
Updated(r, ok) ==
    /\ reqs[r].pc = "update"
    /\ LET q == reqs[r]
           ids == createdIds(q)
       IN  IF ~ok
           THEN /\ reqs' = [reqs EXCEPT ![r] = caught(q)]
                /\ UNCHANGED db
           ELSE /\ db' = [db EXCEPT !.alerts =
                             [i \in DOMAIN @ |->
                                 IF @[i].id \in ids THEN [@[i] EXCEPT !.email_sent = TRUE]
                                 ELSE @[i]]]
                /\ reqs' = [reqs EXCEPT ![r] = respond(q, "ok")]
    /\ UNCHANGED <<processEnv, sockets, callVars, other, probe, peer, now>>

\* a minute passes
Tick ==
    /\ now < MaxNow
    /\ now' = now + 1
    /\ UNCHANGED <<processEnv, sockets, callVars, other, probe, peer, db, reqs>>

\* the steps of a send are those of a call made by a request
Sending == \E r \in Requests : reqs[r].pc = "sending"

NextEval ==
    \/ \E r \in Requests, body \in Bodies : Evaluate(r, body)
    \/ \E r \in Requests, ok \in BOOLEAN : GotSettings(r, ok)
    \/ \E r \in Requests, ok \in BOOLEAN : CooldownAnswered(r, ok)
    \/ \E r \in Requests, ok \in BOOLEAN : Inserted(r, ok)
    \/ \E r \in Requests : CallSendEmail(r)
    \/ \E r \in Requests : SendReturned(r)
    \/ \E r \in Requests, ok \in BOOLEAN : Updated(r, ok)
    \/ Tick
    \/ Sending /\ SendEmail
    \/ Sending /\ OnConnect
    \/ Sending /\ OnConnectError
    \/ Sending /\ \E chunk \in EvalChunks(pc) : OnData(chunk)
    \/ Sending /\ OnTimeout
    \/ Sending /\ OnWritten(FALSE)

EvalSpec == InitEval /\ [][NextEval]_vars

\* the request has been answered
Responded(r) == reqs[r].pc = "done"

\* C25: once evaluateReading has recorded the triggered alerts, no outcome of
\* the email send makes it respond with an error: a request whose call of
\* sendEmail has ended, and none of whose queries was rejected, responds ok.
C25_EmailIsBestEffort ==
    \A r \in Requests :
        Responded(r) /\ reqs[r].sent # "none" /\ ~reqs[r].failed
            => reqs[r].response = "ok"

\* the rows request r created
RowsBy(r) == {i \in DOMAIN db.alerts : db.alerts[i].by = r}

\* email_sent is TRUE only on rows created by a request whose sendEmail
\* returned true, the row being one of the batch
MarkedOnlyAfterSend ==
    \A i \in DOMAIN db.alerts :
        db.alerts[i].email_sent
            => /\ reqs[db.alerts[i].by].sent = "true"
               /\ db.alerts[i].id \in createdIds(reqs[db.alerts[i].by])
               /\ db.alerts[i].email_to # <<>>

\* C28 as stated: email_sent is TRUE only on rows of a request whose sendEmail
\* returned true; rows made with no recipient or whose send failed keep FALSE;
\* and a request whose send succeeded has, once answered, every row it created
\* marked.
C28_SentFlagFollowsSend ==
    /\ MarkedOnlyAfterSend
    /\ \A r \in Requests :
           Responded(r) /\ reqs[r].sent = "true"
               => \A i \in RowsBy(r) : db.alerts[i].email_sent

\* C28, amended: as above, but a successful send marks every row of the
\* request only when the UPDATE query is answered; when the UPDATE is
\* rejected the request responds 500 and none of its rows is marked.
C28_SentFlagFollowsSendAndUpdate ==
    /\ MarkedOnlyAfterSend
    /\ \A r \in Requests :
           Responded(r) /\ reqs[r].sent = "true"
               => IF reqs[r].failed
                  THEN /\ reqs[r].response = "500"
                       /\ \A i \in RowsBy(r) : ~db.alerts[i].email_sent
                  ELSE /\ reqs[r].response = "ok"
                       /\ \A i \in RowsBy(r) : db.alerts[i].email_sent

\* one request has sent its two alerts and marked them, while the row of the
\* other request, whose send failed, is not marked
C28_Witness ==
    \E r, o \in Requests :
        /\ Responded(r) /\ reqs[r].sent = "true" /\ reqs[r].response = "ok"
        /\ Len(reqs[r].created) = 2
        /\ \A i \in RowsBy(r) : db.alerts[i].email_sent
        /\ Responded(o) /\ reqs[o].sent = "false"
        /\ RowsBy(o) # {}
        /\ \A i \in RowsBy(o) : ~db.alerts[i].email_sent

\* C29: for the device and an alert type, no two alert rows are created less
\* than cooldown_minutes apart, whatever the interleaving of the requests.
C29_CooldownSuppressesDuplicates ==
    \A i, j \in DOMAIN db.alerts :
        i < j /\ db.alerts[i].type = db.alerts[j].type
            => db.alerts[j].created_at - db.alerts[i].created_at >= CooldownOfDevice

\* ------------------------------------------- the pure functions on their own

ParseAlphabet == {"5", "0", "x", LF, CR}

RECURSIVE TextsOfLen(_)
TextsOfLen(n) ==
    IF n = 0 THEN {<<>>}
    ELSE {Append(t, c) : t \in TextsOfLen(n - 1), c \in ParseAlphabet}

\* the responses the parser is documented with
DocumentedTexts ==
    { <<"2", "5", "0", " ", "O", "K", CR, LF>>,
      <<"5", "5", "0", "-", "f", "i", "r", "s", "t", CR, LF,
        "5", "5", "0", " ", "s", "e", "c", "o", "n", "d", CR, LF>>,
      <<"g", "a", "r", "b", "a", "g", "e", CR, LF>> }

ParseInputs == DocumentedTexts \cup UNION {TextsOfLen(n) : n \in 0..MaxTextLen}

MimeInputs ==
    [from : {<<"f">>},
     to : {<<"a">>, <<"a", ",", " ", "b">>},
     subject : {<<"s">>},
     html : {<< <<"<", "p", ">">> >>, << <<"<", "p", ">">>, <<"<", "b", ">">> >>}]

InitFn ==
    /\ processEnv = [SMTP_HOST |-> <<>>, SMTP_PORT |-> <<>>, SMTP_USER |-> <<>>,
                     SMTP_PASS |-> <<" ">>, SMTP_FROM |-> <<>>, SMTP_STARTTLS |-> <<>>]
    /\ params = [to |-> <<>>, subject |-> <<"s">>, html |-> << <<"<", "p", ">">> >>]
    /\ sockets = 0
    /\ Fresh
    /\ other = NoCall
    /\ probe = NoProbe
    /\ NoWorld

\* extractCode(resp), for any text
CallExtractCode ==
    /\ probe.op = "none"
    /\ \E text \in ParseInputs :
           probe' = [op |-> "extractCode", in |-> text, out |-> extractCode(text)]
    /\ UNCHANGED <<processEnv, sockets, callVars, other, worldVars>>

\* makeMime(...), with the boundary Math.random gives this call
CallMakeMime ==
    /\ probe.op = "none"
    /\ \E in \in MimeInputs, b \in Boundaries :
           probe' = [op |-> "makeMime", in |-> in,
                     out |-> <<makeMime(in.from, in.to, in.subject, in.html, b)>>]
    /\ UNCHANGED <<processEnv, sockets, callVars, other, worldVars>>

\* makeMime called once more with the same inputs
CallMakeMimeAgain ==
    /\ probe.op = "makeMime"
    /\ Len(probe.out) = 1
    /\ \E b \in Boundaries :
           probe' = [probe EXCEPT !.out =
                        Append(@, makeMime(probe.in.from, probe.in.to, probe.in.subject,
                                           probe.in.html, b))]
    /\ UNCHANGED <<processEnv, sockets, callVars, other, worldVars>>

\* subjects and HTML bodies with a line that holds a period alone
PayloadInputs ==
    [from : {<<"f">>},
     to : {<<"a">>},
     subject : {<<"s">>, <<"s", CR, LF, ".", CR, LF, "t">>},
     html : {<< <<"<", "p", ">">> >>,
             << <<".">> >>,
             << <<"<", "p", ">">>, <<".">>, <<"<", "b", ">">> >>,
             << <<"<", "p", ">">>, <<".", "x">> >>,
             << <<".", ".">>, <<"<", "p", ">">> >>}]

\* [...].join("\r\n"): the characters of a document given as segments
RECURSIVE joinCrlf(_)
joinCrlf(segs) ==
    IF Len(segs) = 0 THEN <<>>
    ELSE IF Len(segs) = 1 THEN segs[1]
    ELSE segs[1] \o <<CR, LF>> \o joinCrlf(Tail(segs))

\* the text sendEmail writes after the 354 reply: mime + "\r\n.\r\n"
CallDataPayload ==
    /\ probe.op = "none"
    /\ \E in \in PayloadInputs, b \in Boundaries :
           probe' = [op |-> "payload", in |-> in,
                     out |-> joinCrlf(dataPayload(makeMime(in.from, in.to, in.subject,
                                                           in.html, b)))]
    /\ UNCHANGED <<processEnv, sockets, callVars, other, worldVars>>

NextFn ==
    \/ CallExtractCode
    \/ CallMakeMime
    \/ CallMakeMimeAgain
    \/ CallDataPayload

FnSpec == InitFn /\ [][NextFn]_vars

\* C17: extractCode returns the number made of the three digits that start
\* the first line of the text that starts with three digits, and 0 when no
\* line does: "250 OK" gives 250, "550-first / 550 second" gives 550 and
\* "garbage" gives 0.
LineEnds == {LF, CR}

RECURSIVE FirstCodedLine(_)
FirstCodedLine(t) ==
    IF Len(t) >= 3 /\ t[1] \in Digits /\ t[2] \in Digits /\ t[3] \in Digits
    THEN 100 * DigitVal(t[1]) + 10 * DigitVal(t[2]) + DigitVal(t[3])
    ELSE IF \A i \in 1..Len(t) : t[i] \notin LineEnds
    THEN 0
    ELSE LET e == CHOOSE i \in 1..Len(t) :
                      t[i] \in LineEnds /\ \A j \in 1..(i - 1) : t[j] \notin LineEnds
         IN  FirstCodedLine(SubSeq(t, e + 1, Len(t)))

C17_ExtractCode ==
    probe.op = "extractCode" =>
        /\ probe.out = FirstCodedLine(probe.in)
        /\ probe.in = <<"2", "5", "0", " ", "O", "K", CR, LF>> => probe.out = 250
        /\ probe.in = <<"5", "5", "0", "-", "f", "i", "r", "s", "t", CR, LF,
                        "5", "5", "0", " ", "s", "e", "c", "o", "n", "d", CR, LF>>
               => probe.out = 550
        /\ probe.in = <<"g", "a", "r", "b", "a", "g", "e", CR, LF>> => probe.out = 0

C17_Witness ==
    /\ probe.op = "extractCode"
    /\ probe.in = <<"x", LF, "5", "5", "0">>
    /\ probe.out = 550

\* C19 as stated: two makeMime calls with the same inputs give documents
\* that are the same but for the boundary token, the token differs between
\* the two, and in each document the header declaration, the opening
\* delimiter and the closing delimiter hold the same token.
DeclaredToken(doc) == doc[5][2]

TokenConsistent(doc) ==
    /\ doc[5] = <<"Content-Type: multipart/alternative; boundary=\"", DeclaredToken(doc), "\"">>
    /\ doc[7] = <<"--", DeclaredToken(doc)>>
    /\ doc[Len(doc) - 1] = <<"--", DeclaredToken(doc), "--">>
    /\ doc[Len(doc)] = <<>>

TokenPlaces(doc) == {5, 7, Len(doc) - 1}

SameButForToken(d1, d2) ==
    /\ Len(d1) = Len(d2)
    /\ \A k \in DOMAIN d1 : k \notin TokenPlaces(d1) => d1[k] = d2[k]
    /\ TokenConsistent(d1)
    /\ TokenConsistent(d2)

C19_BoundaryAlwaysDiffers ==
    (probe.op = "makeMime" /\ Len(probe.out) = 2) =>
        /\ SameButForToken(probe.out[1], probe.out[2])
        /\ DeclaredToken(probe.out[1]) # DeclaredToken(probe.out[2])

\* C19 as amended: two makeMime calls with the same inputs give documents
\* that are the same but for the boundary token; each call draws its token
\* by itself, so the two documents differ exactly when the two draws do; and
\* in each document the header declaration, the opening delimiter and the
\* closing delimiter hold the same token.
C19_SameButForBoundary ==
    /\ (probe.op = "makeMime" /\ Len(probe.out) >= 1) => TokenConsistent(probe.out[1])
    /\ (probe.op = "makeMime" /\ Len(probe.out) = 2) =>
        /\ SameButForToken(probe.out[1], probe.out[2])
        /\ (probe.out[1] = probe.out[2])
               <=> (DeclaredToken(probe.out[1]) = DeclaredToken(probe.out[2]))

C19_Witness ==
    /\ probe.op = "makeMime"
    /\ Len(probe.out) = 2
    /\ Len(probe.in.html) = 2
    /\ DeclaredToken(probe.out[1]) # DeclaredToken(probe.out[2])

\* C27: in the text written after the 354 reply, the end-of-data marker, a
\* line that holds a period alone (CRLF.CRLF), stands exactly once, at the
\* very end, for every subject and every HTML body.
EndOfData == <<CR, LF, ".", CR, LF>>

MarkersIn(text) ==
    {i \in 1..Len(text) : i + 4 <= Len(text) /\ SubSeq(text, i, i + 4) = EndOfData}

C27_EndOfDataOnlyAtEnd ==
    probe.op = "payload" => MarkersIn(probe.out) = {Len(probe.out) - 4}

====
